---- MODULE Spec2Model ----
(***************************************************************************)
(* A model of jes/autosqlite (src/autosqlite.go): Open, Migrate,           *)
(* MigrateToNewFile and the helpers they call, over a small file system    *)
(* holding the database file, its ".backup", ".tmp" and ".migration.lock"  *)
(* siblings.                                                               *)
(*                                                                         *)
(* A schema text is a sequence of lines.  A database file is a record      *)
(* holding its catalog (the tables with the text sqlite_master keeps for   *)
(* each), the rows of every table and the _autosqlite_version table.       *)
(***************************************************************************)
EXTENDS Integers, Sequences, FiniteSets, TLC

\* ------------------------------------------------------------------ bounds

\* Number of concurrent callers in the concurrent specification.
NumProcs == 3
\* Number of calls the single caller makes in Spec, SpecData and SpecFault.
MaxCalls == 4
MaxDataCalls == 3
MaxFaultCalls == 3
MaxEqualCalls == 3
MaxNewFileCalls == 3
MaxNullCalls == 3
MaxClearCalls == 3
\* Longest column list handed to FindCommonColumns on its own.
MaxColumns == 3
\* Rows a user inserts into one table between calls.
MaxRows == 2

\* ------------------------------------------------------------ schema texts

versionTableName == "_autosqlite_version"

NULL == 0

\* One line of schema text.  k is the kind of line, ind the number of leading
\* blanks, and the other fields hold what the line says:
\*   "create"  CREATE TABLE [IF NOT EXISTS] t (
\*   "col"     c TEXT [NOT NULL] [DEFAULT df]      (df = NULL: no default)
\*   "close"   );
\*   "insert"  INSERT INTO t (c) VALUES (v);
\*   "pragma"  a statement that changes neither catalog nor rows
\*   "comment" -- ...
\*   "blank"   an empty line
\*   "junk"    text that is not SQL
Line(k, ind, t, c, nn, df, ine) ==
    [k |-> k, ind |-> ind, t |-> t, c |-> c, nn |-> nn, df |-> df, ine |-> ine]

Create(t)        == Line("create", 0, t, "", FALSE, NULL, FALSE)
CreateINE(t)     == Line("create", 0, t, "", FALSE, NULL, TRUE)
Col(ind, c)      == Line("col", ind, "", c, FALSE, NULL, FALSE)
ColNN(ind, c)    == Line("col", ind, "", c, TRUE, NULL, FALSE)
ColNND(ind, c, d) == Line("col", ind, "", c, TRUE, d, FALSE)
Close            == Line("close", 0, "", "", FALSE, NULL, FALSE)
Insert(t, c, v)  == Line("insert", 0, t, c, FALSE, v, FALSE)
Pragma           == Line("pragma", 0, "", "", FALSE, NULL, FALSE)
Comment          == Line("comment", 0, "", "", FALSE, NULL, FALSE)
Blank            == Line("blank", 0, "", "", FALSE, NULL, FALSE)
Junk             == Line("junk", 0, "", "", FALSE, NULL, FALSE)

\* strings.TrimSpace on one line: the leading blanks go.
TrimSpace(line) == [line EXCEPT !.ind = 0]

\* normalizeSchema: split into lines, trim each, drop the empty ones and the
\* ones starting with "--", join the rest with one blank.  The joined string
\* is represented by the sequence of the trimmed lines it is made of.
normalizeSchema(schema) ==
    LET trimmed == [i \in 1..Len(schema) |-> TrimSpace(schema[i])]
    IN  SelectSeq(trimmed, LAMBDA l : l.k # "blank" /\ l.k # "comment")

\* calculateSchemaHash: SHA-256 of the normalized text.  The digest is taken
\* to be collision free and is represented by the text it digests.
calculateSchemaHash(schema) == <<"sha256", normalizeSchema(schema)>>

\* --------------------------------------------------------- database files

\* A path with no file.
NoFile ==
    [exists |-> FALSE, tabs |-> {}, rows |-> [n \in {} |-> <<>>],
     hasVer |-> FALSE, ver |-> <<>>]

\* The database sqlite creates when it opens a path with no file: empty.
EmptyDb == [NoFile EXCEPT !.exists = TRUE]

\* Opening a connection (mattn/go-sqlite3, mode rwc): a missing file is created.
OpenDb(f) == IF f.exists THEN f ELSE EmptyDb

TableNames(db) == {tb.name : tb \in db.tabs}
TableOf(db, t) == CHOOSE tb \in db.tabs : tb.name = t

\* The value of a column an INSERT does not name.
DefaultOf(col) == col.df

\* INSERT INTO t (the columns of vals) VALUES (...): the row stored, or a
\* NOT NULL failure.  vals maps the named columns to their values.
InsertRow(db, t, vals) ==
    LET tb  == TableOf(db, t)
        row == [c \in {tb.cols[i].name : i \in 1..Len(tb.cols)} |->
                  IF c \in DOMAIN vals THEN vals[c]
                  ELSE DefaultOf(CHOOSE col \in {tb.cols[i] : i \in 1..Len(tb.cols)} :
                                     col.name = c)]
        bad == \E i \in 1..Len(tb.cols) :
                  tb.cols[i].nn /\ row[tb.cols[i].name] = NULL
    IN  IF bad THEN [ok |-> FALSE, db |-> db]
        ELSE [ok |-> TRUE,
              db |-> [db EXCEPT !.rows[t] = Append(@, row)]]

\* db.Exec(schema): the statements run one after the other, each committed
\* as it ends; the first failing statement stops the run and what ran before
\* it stays.  cur is the CREATE TABLE statement being read (active) or not.
NoStmt == [active |-> FALSE, t |-> "", ine |-> FALSE, sql |-> <<>>, cols |-> <<>>]

RECURSIVE ExecFrom(_, _, _, _)
ExecFrom(db, schema, i, cur) ==
    IF i > Len(schema)
    THEN [ok |-> ~cur.active, db |-> db]
    ELSE
      LET l == schema[i] IN
      IF ~cur.active
      THEN CASE l.k \in {"blank", "comment", "pragma"} ->
                  ExecFrom(db, schema, i + 1, cur)
             [] l.k = "create" ->
                  ExecFrom(db, schema, i + 1,
                           [active |-> TRUE, t |-> l.t, ine |-> l.ine,
                            sql |-> <<TrimSpace(l)>>, cols |-> <<>>])
             [] l.k = "insert" ->
                  IF l.t \notin TableNames(db)
                     \/ l.c \notin {TableOf(db, l.t).cols[j].name :
                                       j \in 1..Len(TableOf(db, l.t).cols)}
                  THEN [ok |-> FALSE, db |-> db]
                  ELSE LET r == InsertRow(db, l.t, [c \in {l.c} |-> l.df])
                       IN  IF r.ok THEN ExecFrom(r.db, schema, i + 1, cur)
                           ELSE [ok |-> FALSE, db |-> db]
             [] OTHER -> [ok |-> FALSE, db |-> db]
      ELSE CASE l.k \in {"blank", "comment"} ->
                  ExecFrom(db, schema, i + 1,
                           [cur EXCEPT !.sql = Append(@, l)])
             [] l.k = "col" ->
                  ExecFrom(db, schema, i + 1,
                           [cur EXCEPT !.sql = Append(@, l),
                                       !.cols = Append(@, [name |-> l.c, nn |-> l.nn,
                                                           df |-> l.df])])
             [] l.k = "close" ->
                  IF cur.cols = <<>> THEN [ok |-> FALSE, db |-> db]
                  ELSE IF cur.t \in TableNames(db)
                  THEN IF cur.ine THEN ExecFrom(db, schema, i + 1, NoStmt)
                       ELSE [ok |-> FALSE, db |-> db]
                  ELSE ExecFrom(
                         [db EXCEPT
                            !.tabs = @ \cup {[name |-> cur.t,
                                              sql |-> Append(cur.sql, l),
                                              cols |-> cur.cols]},
                            !.rows = [n \in DOMAIN @ \cup {cur.t} |->
                                        IF n = cur.t THEN <<>> ELSE @[n]]],
                         schema, i + 1, NoStmt)
             [] OTHER -> [ok |-> FALSE, db |-> db]

Exec(db, schema) == ExecFrom(db, schema, 1, NoStmt)

\* ------------------------------------------------------- version tracking

\* The text sqlite_master keeps for the table createVersionTable creates.
VersionTableSql == <<Create(versionTableName), Col(0, "version"), ColNN(0, "hash"),
                     ColNN(0, "timestamp"), Col(0, "schema_sql"), Close>>

\* createVersionTable: CREATE TABLE IF NOT EXISTS _autosqlite_version (...).
createVersionTable(db) == [db EXCEPT !.hasVer = TRUE]

\* A record that numbers every row 1.
recordAsFirst(db, version, hash) ==
    [createVersionTable(db) EXCEPT !.ver = Append(@, [version |-> 1, hash |-> hash])]

\* recordSchemaVersion: create the version table if absent, insert one row.
\* The timestamp and the schema text columns are written and never read back
\* by the program; the row is represented by its version and hash.
recordSchemaVersion(db, version, hash) ==
    [createVersionTable(db) EXCEPT
        !.ver = Append(@, [version |-> version, hash |-> hash])]

NoHash == <<"none", <<>>>>

\* getCurrentSchemaVersion: nil when there is no version table, an error when
\* the table holds no row (Scan returns sql.ErrNoRows), else the row
\* "ORDER BY version DESC LIMIT 1".  Among rows of equal version sqlite may
\* return any: the result is the set of the outcomes the query can have.
getCurrentSchemaVersion(db) ==
    IF ~db.hasVer
    THEN {[err |-> FALSE, nil |-> TRUE, version |-> 0, hash |-> NoHash]}
    ELSE IF db.ver = <<>>
    THEN {[err |-> TRUE, nil |-> TRUE, version |-> 0, hash |-> NoHash]}
    ELSE {[err |-> FALSE, nil |-> FALSE,
           version |-> db.ver[i].version, hash |-> db.ver[i].hash] :
            i \in {j \in 1..Len(db.ver) :
                     \A k \in 1..Len(db.ver) : db.ver[k].version <= db.ver[j].version}}

\* A direction check that looks only at the row before the current one.
previousRowOnly(db, cv, newSchema) ==
    LET newHash == calculateSchemaHash(newSchema)
        n       == Len(db.ver)
    IN  IF cv.err THEN "err"
        ELSE IF cv.nil THEN "forward"
        ELSE IF cv.hash = newHash THEN "forward"
        ELSE IF n >= 2 /\ db.ver[n - 1].hash = newHash THEN "backward"
        ELSE "forward"

\* isForwardMigration, given the outcome cv of its getCurrentSchemaVersion
\* call: "err", or the boolean it returns as "forward" / "backward".
isForwardMigration(db, cv, newSchema) ==
    LET newHash == calculateSchemaHash(newSchema)
        count   == Cardinality({i \in 1..Len(db.ver) : db.ver[i].hash = newHash})
    IN  IF cv.err THEN "err"
        ELSE IF cv.nil THEN "forward"
        ELSE IF cv.hash = newHash THEN "forward"
        ELSE IF count > 0 THEN "backward"
        ELSE "forward"

\* ------------------------------------------------------ schema comparison

\* getFullSchema: the "type|name|sql" strings of sqlite_master, ordered by
\* type and name.  Names are unique in a catalog, so two ordered lists are
\* equal exactly when the sets of their entries are: the list is represented
\* by that set.  The version table is a table of the catalog like any other.
getFullSchema(db) ==
    {<<"table", tb.name, tb.sql>> : tb \in db.tabs}
      \cup (IF db.hasVer THEN {<<"table", versionTableName, VersionTableSql>>} ELSE {})

\* SchemasEqual on the database db read from dbPath: the schema is run in a
\* fresh in-memory database that already holds the version table; a schema
\* that fails to run compares unequal.
\* A comparison that never finds the database up to date.
NeverEqual(schema, db) == FALSE

\* A comparison that goes on when the schema failed to run.
EqualDespiteError(schema, db) ==
    getFullSchema(db) = getFullSchema(Exec(createVersionTable(EmptyDb), schema).db)

SchemasEqual(schema, db) ==
    LET temp == Exec(createVersionTable(EmptyDb), schema)
    IN  temp.ok /\ getFullSchema(db) = getFullSchema(temp.db)

\* ------------------------------------------------------------- data copy

\* GetTables: the tables of sqlite_master but the version table.
GetTables(db) == TableNames(db)

\* GetColumns: the column names PRAGMA table_info lists, in order.
GetColumns(db, t) ==
    IF t \in TableNames(db)
    THEN [i \in 1..Len(TableOf(db, t).cols) |-> TableOf(db, t).cols[i].name]
    ELSE <<>>

\* FindCommonColumns: the new columns that are also old columns, in the
\* order of the new ones.
\* A column intersection that stops after the first common column.
FirstCommonColumn(oldColumns, newColumns) ==
    LET common == SelectSeq(newColumns,
                            LAMBDA c : c \in {oldColumns[i] : i \in 1..Len(oldColumns)})
    IN  IF common = <<>> THEN common ELSE <<common[1]>>

\* A column intersection that walks the old columns instead of the new ones.
CommonInOldOrder(oldColumns, newColumns) ==
    SelectSeq(oldColumns,
              LAMBDA c : c \in {newColumns[i] : i \in 1..Len(newColumns)})

FindCommonColumns(oldColumns, newColumns) ==
    SelectSeq(newColumns,
              LAMBDA c : c \in {oldColumns[i] : i \in 1..Len(oldColumns)})

\* The loop of MigrateTable over the rows SELECT returned.
RECURSIVE CopyRows(_, _, _, _, _)
CopyRows(rows, i, common, newDB, t) ==
    IF i > Len(rows) THEN [ok |-> TRUE, db |-> newDB]
    ELSE LET r == InsertRow(newDB, t,
                            [c \in {common[j] : j \in 1..Len(common)} |-> rows[i][c]])
         IN  IF r.ok THEN CopyRows(rows, i + 1, common, r.db, t)
             ELSE [ok |-> FALSE, db |-> newDB]

\* A table copy that commits the rows it inserted before the failing one.
CommitPartial(oldDB, newDB, t) ==
    LET commonColumns == FindCommonColumns(GetColumns(oldDB, t), GetColumns(newDB, t))
    IN  IF Len(commonColumns) = 0 THEN [ok |-> TRUE, db |-> newDB]
        ELSE [ok |-> TRUE, db |-> CopyRows(oldDB.rows[t], 1, commonColumns, newDB, t).db]

\* A table copy without the early return for an empty column list: the
\* SELECT it builds has no column and fails.
FailOnNoCommon(oldDB, newDB, t) ==
    LET commonColumns == FindCommonColumns(GetColumns(oldDB, t), GetColumns(newDB, t))
        r             == CopyRows(oldDB.rows[t], 1, commonColumns, newDB, t)
    IN  IF Len(commonColumns) > 0 /\ r.ok THEN r ELSE [ok |-> FALSE, db |-> newDB]

\* MigrateTable: copy the common columns of every old row in one
\* transaction; a failing INSERT rolls the transaction back.
MigrateTable(oldDB, newDB, t) ==
    LET commonColumns == FindCommonColumns(GetColumns(oldDB, t), GetColumns(newDB, t))
    IN  IF Len(commonColumns) = 0 THEN [ok |-> TRUE, db |-> newDB]
        ELSE LET r == CopyRows(oldDB.rows[t], 1, commonColumns, newDB, t)
             IN  IF r.ok THEN r ELSE [ok |-> FALSE, db |-> newDB]

\* MigrateToNewFile, lines 234-267: the version table is copied row by row
\* when the old database has one.
CopyVersionTable(oldDB, newDB) ==
    IF oldDB.hasVer
    THEN [createVersionTable(newDB) EXCEPT !.ver = @ \o oldDB.ver]
    ELSE newDB

\* MigrateToNewFile, lines 269-291: MigrateTable for every new table that is
\* also an old table.  The tables are copied independently of each other and
\* the first failure ends the call.
CopyTables(oldDB, newDB) ==
    LET both == GetTables(newDB) \cap GetTables(oldDB)
        one(t) == MigrateTable(oldDB, newDB, t)
    IN  [ok |-> \A t \in both : one(t).ok,
         db |-> [newDB EXCEPT
                   !.rows = [t \in DOMAIN @ |->
                               IF t \in both THEN one(t).db.rows[t] ELSE @[t]]]]


\* ------------------------------------------------------------ file system

DbPath     == "db"
BackupPath == "db.backup"
TmpPath    == "db.tmp"
Paths      == {DbPath, BackupPath, TmpPath}

Procs == 1..NumProcs

\* Files are inodes: a path names an inode (0: no file there) and an open
\* connection keeps its inode whatever happens to the path afterwards.
Inos == 1..(NumProcs + 3)

NoFs == [path |-> [x \in Paths |-> 0], disk |-> [i \in Inos |-> NoFile]]

Content(f, x) == IF f.path[x] = 0 THEN NoFile ELSE f.disk[f.path[x]]

InUse(f, held) == {f.path[x] : x \in Paths} \cup held

\* The inode a newly created file gets.
FreshIno(f, held) ==
    CHOOSE i \in Inos : /\ i \notin InUse(f, held)
                        /\ \A j \in Inos : j < i => j \in InUse(f, held)

\* An inode no path names and no connection holds is gone.
Collect(f, held) ==
    [f EXCEPT !.disk = [i \in Inos |-> IF i \in InUse(f, held) THEN @[i] ELSE NoFile]]

\* Opening a connection to path x (mode rwc): a missing file is created empty.
Touch(f, x, held) ==
    IF f.path[x] # 0 THEN f
    ELSE LET i == FreshIno(f, held)
         IN  [path |-> [f.path EXCEPT ![x] = i],
              disk |-> [f.disk EXCEPT ![i] = OpenDb(NoFile)]]

WriteIno(f, i, db) == [f EXCEPT !.disk[i] = db]

\* An os.Remove that leaves the file where it is.
KeepFile(f, x, held) == f

\* os.Remove(x)
Remove(f, x, held) == Collect([f EXCEPT !.path[x] = 0], held)

\* A cutover that deletes the destination and moves nothing there.
DeleteInsteadOfRename(f, from, to, held) ==
    Collect([f EXCEPT !.path[to] = 0], held)

\* os.Rename(from, to): one step; the file that was at "to" is unlinked.
Rename(f, from, to, held) ==
    Collect([f EXCEPT !.path[to] = f.path[from], !.path[from] = 0], held)

\* copyFile(src, dst): dst is created, or truncated if it exists, and gets
\* the bytes of src.
\* A copy that creates the destination and writes nothing to it.
copyNothing(f, src, dst, held) == Touch(f, dst, held)

copyFile(f, src, dst, held) ==
    LET g == Touch(f, dst, held)
    IN  WriteIno(g, g.path[dst], Content(f, src))

\* ------------------------------------------------------------------ inputs

SchemaV1 == <<Create("users"), Col(0, "id"), Col(0, "name"), Close>>
SchemaV2 == <<Create("users"), Col(0, "id"), Col(0, "name"), Col(0, "email"), Close>>
SchemaV2DropName == <<Create("users"), Col(0, "id"), Close>>
SchemaV1WithPosts ==
    SchemaV1 \o <<Create("posts"), Col(0, "id"), Col(0, "title"), Close>>
\* SchemaV1 with its column lines indented: the same normalized text, another
\* text in sqlite_master.
SchemaV1Indented == <<Create("users"), Col(1, "id"), Col(1, "name"), Close>>
\* SchemaV1 followed by a statement that creates nothing: the same catalog,
\* another normalized text.
SchemaV1Pragma == SchemaV1 \o <<Pragma>>
\* SchemaV2 followed by an INSERT, as in src/schema.sql.
SchemaV2Seeded == SchemaV2 \o <<Insert("users", "name", 7)>>
\* SchemaV1WithPosts followed by an INSERT into the new table.
SchemaPostsSeeded == SchemaV1WithPosts \o <<Insert("posts", "title", 8)>>
\* SchemaV1 followed by text that is not SQL.
SchemaV1ThenJunk == SchemaV1 \o <<Junk>>
\* SchemaV1 with its name column declared NOT NULL, without and with a
\* default (TestNotNullConstraintViolation, TestNotNullConstraintWithDefault).
SchemaNameNotNull == <<Create("users"), Col(0, "id"), ColNN(0, "name"), Close>>
DefaultName == 51
SchemaNameDefault ==
    <<Create("users"), Col(0, "id"), ColNND(0, "name", DefaultName), Close>>
\* A users table that shares no column with the one of SchemaV1, without and
\* with an INSERT of its own.
SchemaEmailOnly == <<Create("users"), Col(0, "email"), Close>>
SchemaEmailSeeded == SchemaEmailOnly \o <<Insert("users", "email", 9)>>
\* SchemaV2 written with CREATE TABLE IF NOT EXISTS.
SchemaV2IfNotExists ==
    <<CreateINE("users"), Col(0, "id"), Col(0, "name"), Col(0, "email"), Close>>
\* "INVALID SQL"
SchemaInvalid == <<Junk>>

\* The rows a user of the returned handle inserts: every column set, or only
\* the id set.
DataVal(c) == CASE c = "id" -> 11 [] c = "name" -> 21 [] c = "email" -> 31 [] OTHER -> 41

UserRows(tb) ==
    LET names == {tb.cols[i].name : i \in 1..Len(tb.cols)}
    IN  {[c \in names |-> DataVal(c)],
         [c \in names \cap {"id"} |-> 12]}

\* ------------------------------------------------------------------- state

VARIABLES
    fs,       \* the database file and its ".backup" and ".tmp" siblings
    lockIno,  \* the inode at dbPath + ".migration.lock" (0: no file)
    holder,   \* for each lock inode, the caller holding its flock (0: free)
    fd,       \* for each caller, the lock inode its flock.Flock has open
    conn,     \* for each caller, the inode of the connection it writes through:
              \* db in Open, newDB in MigrateToNewFile (0: none)
    pc,       \* where each caller is in Open / Migrate
    op,       \* the function each caller called
    arg,      \* the schema each caller passed
    res,      \* what the call returns
    snap,     \* the files as they were when the call began
    hist,     \* the last calls each caller completed
    ncalls    \* the number of calls each caller made

vars == <<fs, lockIno, holder, fd, conn, pc, op, arg, res, snap, hist, ncalls>>

\* Number of completed calls kept in hist.
HistLen == 3

LockInos == 1..(NumProcs + 1)

Held == {conn[q] : q \in Procs} \ {0}
HeldBut(p) == {conn[q] : q \in Procs \ {p}} \ {0}

Files(f) == [x \in Paths |-> Content(f, x)]

NoRes == [ok |-> FALSE, kind |-> "none"]
Ok(kind)  == [ok |-> TRUE, kind |-> kind]
Err(kind) == [ok |-> FALSE, kind |-> kind]

Remember(h, call) ==
    IF Len(h) < HistLen THEN Append(h, call) ELSE Append(Tail(h), call)

\* The program wrote to the database after the last call of h returned.
Disturb(h) ==
    IF h = <<>> THEN h ELSE [h EXCEPT ![Len(h)].quiet = FALSE]

\* The call of p returns r.
Return(p, r) ==
    /\ pc' = [pc EXCEPT ![p] = "done"]
    /\ res' = [res EXCEPT ![p] = r]
    /\ hist' = [hist EXCEPT ![p] = Remember(@, [op |-> op[p], schema |-> arg[p], res |-> r, quiet |-> TRUE])]

Goto(p, label) == pc' = [pc EXCEPT ![p] = label]

InitProcs ==
    /\ lockIno = 0
    /\ holder = [i \in LockInos |-> 0]
    /\ fd = [p \in Procs |-> 0]
    /\ conn = [p \in Procs |-> 0]
    /\ pc = [p \in Procs |-> "idle"]
    /\ op = [p \in Procs |-> "none"]
    /\ arg = [p \in Procs |-> <<>>]
    /\ res = [p \in Procs |-> NoRes]
    /\ snap = [p \in Procs |-> Files(fs)]
    /\ hist = [p \in Procs |-> <<>>]
    /\ ncalls = [p \in Procs |-> 0]

\* -------------------------------------------------------------------- Open

Call(p, f, s, first, max) ==
    /\ pc[p] \in {"idle", "done"}
    /\ ncalls[p] < max
    /\ ncalls' = [ncalls EXCEPT ![p] = @ + 1]
    /\ op' = [op EXCEPT ![p] = f]
    /\ arg' = [arg EXCEPT ![p] = s]
    /\ res' = [res EXCEPT ![p] = NoRes]
    /\ snap' = [snap EXCEPT ![p] = Files(fs)]
    /\ Goto(p, first)
    /\ UNCHANGED <<fs, lockIno, holder, fd, conn, hist>>

CallOpen(p, s, max) == Call(p, "Open", s, "o_stat", max)

\* Open, line 66: os.Stat(dbPath)
OpenStat(p) ==
    /\ pc[p] = "o_stat"
    /\ Goto(p, IF fs.path[DbPath] # 0 THEN "o_eq" ELSE "o_ping")
    /\ UNCHANGED <<fs, lockIno, holder, fd, conn, op, arg, res, snap, hist, ncalls>>

\* Open, lines 67-73: SchemasEqual(schema, dbPath)
OpenEqual(p) ==
    /\ pc[p] = "o_eq"
    /\ LET f == Touch(fs, DbPath, Held)
       IN  /\ fs' = f
           /\ IF SchemasEqual(arg[p], Content(f, DbPath))
              THEN Return(p, Ok("asis"))
              ELSE Goto(p, "o_fwd") /\ UNCHANGED <<res, hist>>
    /\ UNCHANGED <<lockIno, holder, fd, conn, op, arg, snap, ncalls>>

\* Open, lines 75-91: the direction check, then Migrate
OpenDirection(p) ==
    /\ pc[p] = "o_fwd"
    /\ LET f == Touch(fs, DbPath, Held)
       IN  /\ fs' = f
           /\ \E cv \in getCurrentSchemaVersion(Content(f, DbPath)) :
                LET d == isForwardMigration(Content(f, DbPath), cv, arg[p])
                IN  CASE d = "err"      -> Return(p, Err("direction"))
                      [] d = "backward" -> Return(p, Err("backward"))
                      [] OTHER          -> Goto(p, "m_open") /\ UNCHANGED <<res, hist>>
    /\ UNCHANGED <<lockIno, holder, fd, conn, op, arg, snap, ncalls>>

\* Open, lines 94-107: sql.Open and db.Ping create the file
OpenPing(p) ==
    /\ pc[p] = "o_ping"
    /\ LET f == Touch(fs, DbPath, Held)
       IN  fs' = f /\ conn' = [conn EXCEPT ![p] = f.path[DbPath]]
    /\ Goto(p, "o_exec")
    /\ UNCHANGED <<lockIno, holder, fd, op, arg, res, snap, hist, ncalls>>

\* Open, lines 109-112: db.Exec(schema); db.Close() when it fails
OpenExec(p) ==
    /\ pc[p] = "o_exec"
    /\ LET r == Exec(fs.disk[conn[p]], arg[p])
       IN  IF r.ok
           THEN /\ fs' = WriteIno(fs, conn[p], r.db)
                /\ Goto(p, "o_rec")
                /\ UNCHANGED <<conn, res, hist>>
           ELSE /\ fs' = Collect(WriteIno(fs, conn[p], r.db), HeldBut(p))
                /\ conn' = [conn EXCEPT ![p] = 0]
                /\ Return(p, Err("schema"))
    /\ UNCHANGED <<lockIno, holder, fd, op, arg, snap, ncalls>>

\* Open, lines 114-125: record version 1 and return the handle
OpenRecord(p) ==
    /\ pc[p] = "o_rec"
    /\ fs' = Collect(WriteIno(fs, conn[p],
                              recordSchemaVersion(fs.disk[conn[p]], 1,
                                                  calculateSchemaHash(arg[p]))),
                     HeldBut(p))
    /\ conn' = [conn EXCEPT ![p] = 0]
    /\ Return(p, Ok("created"))
    /\ UNCHANGED <<lockIno, holder, fd, op, arg, snap, ncalls>>

\* ------------------------------------------------------------ SchemasEqual

CallSchemasEqual(p, s, max) == Call(p, "SchemasEqual", s, "s_eq", max)

\* SchemasEqual(schema, dbPath) called by the program, lines 298-340: the
\* query of getFullSchema opens the connection, which creates the file when
\* there is none; the call returns a boolean.
SchemasEqualCall(p) ==
    /\ pc[p] = "s_eq"
    /\ LET f == Touch(fs, DbPath, Held)
       IN  /\ fs' = f
           /\ Return(p, IF SchemasEqual(arg[p], Content(f, DbPath))
                        THEN Ok("true") ELSE Ok("false"))
    /\ UNCHANGED <<lockIno, holder, fd, conn, op, arg, snap, ncalls>>

\* ----------------------------------------------------------------- Migrate

CallMigrate(p, s, max) == Call(p, "Migrate", s, "m_open", max)

\* The inode a newly created lock file gets.
FreshLockIno ==
    CHOOSE i \in LockInos :
        /\ i # lockIno /\ \A q \in Procs : fd[q] # i
        /\ \A j \in LockInos : j < i => (j = lockIno \/ \E q \in Procs : fd[q] = j)

\* Migrate, lines 139-140: flock.New(lockPath) and the first half of Lock():
\* the lock file is opened, and created when there is none.
LockOpen(p) ==
    /\ pc[p] = "m_open"
    /\ LET i == IF lockIno # 0 THEN lockIno ELSE FreshLockIno
       IN  lockIno' = i /\ fd' = [fd EXCEPT ![p] = i]
    /\ Goto(p, "m_lock")
    /\ UNCHANGED <<fs, holder, conn, op, arg, res, snap, hist, ncalls>>

\* A lock that can only be taken on the file the lock path names now.
FreeOnlyIfLinked(i) == holder[i] = 0 /\ i = lockIno

\* Whether flock(fd, LOCK_EX) on inode i returns now.
LockFree(i) == holder[i] = 0

\* Migrate, line 140: the second half of Lock(): flock(LOCK_EX) on the open
\* file blocks until no other open file holds the lock on that inode.
LockAcquire(p) ==
    /\ pc[p] = "m_lock"
    /\ LockFree(fd[p])
    /\ holder' = [holder EXCEPT ![fd[p]] = p]
    /\ Goto(p, "m_eq")
    /\ UNCHANGED <<fs, lockIno, fd, conn, op, arg, res, snap, hist, ncalls>>

\* The call will return r once the deferred unlock and remove have run.
Leave(p, r) ==
    /\ res' = [res EXCEPT ![p] = r]
    /\ Goto(p, "m_unlock")

\* A Migrate that compares the schema with the file as it was when the call
\* began instead of reading it again under the lock.
DecideFromCallTime(p) ==
    /\ pc[p] = "m_eq"
    /\ fs' = Touch(fs, DbPath, Held)
    /\ IF SchemasEqual(arg[p], snap[p][DbPath])
       THEN Leave(p, Ok("asis"))
       ELSE Goto(p, "m_fwd") /\ UNCHANGED res
    /\ UNCHANGED <<lockIno, holder, fd, conn, op, arg, snap, hist, ncalls>>

\* Migrate, lines 148-155: SchemasEqual again, under the lock
MigrateEqual(p) ==
    /\ pc[p] = "m_eq"
    /\ LET f == Touch(fs, DbPath, Held)
       IN  /\ fs' = f
           /\ IF SchemasEqual(arg[p], Content(f, DbPath))
              THEN Leave(p, Ok("asis"))
              ELSE Goto(p, "m_fwd") /\ UNCHANGED res
    /\ UNCHANGED <<lockIno, holder, fd, conn, op, arg, snap, hist, ncalls>>

\* A Migrate that goes on to the backup whatever the direction check said.
IgnoreDirection(p) ==
    /\ pc[p] = "m_fwd"
    /\ fs' = Touch(fs, DbPath, Held)
    /\ Goto(p, "m_backup")
    /\ UNCHANGED <<lockIno, holder, fd, conn, op, arg, res, snap, hist, ncalls>>

\* Migrate, lines 157-169: the direction check again, under the lock
MigrateDirection(p) ==
    /\ pc[p] = "m_fwd"
    /\ LET f == Touch(fs, DbPath, Held)
       IN  /\ fs' = f
           /\ \E cv \in getCurrentSchemaVersion(Content(f, DbPath)) :
                LET d == isForwardMigration(Content(f, DbPath), cv, arg[p])
                IN  CASE d = "err"      -> Leave(p, Err("direction"))
                      [] d = "backward" -> Leave(p, Err("backward"))
                      [] OTHER          -> Goto(p, "m_backup") /\ UNCHANGED res
    /\ UNCHANGED <<lockIno, holder, fd, conn, op, arg, snap, hist, ncalls>>

\* Migrate, lines 171-173: copyFile(dbPath, backupPath)
MigrateBackup(p) ==
    /\ pc[p] = "m_backup"
    /\ IF fs.path[DbPath] = 0
       THEN Leave(p, Err("backup")) /\ UNCHANGED fs
       ELSE /\ fs' = copyFile(fs, DbPath, BackupPath, Held)
            /\ Goto(p, "m_exec") /\ UNCHANGED res
    /\ UNCHANGED <<lockIno, holder, fd, conn, op, arg, snap, hist, ncalls>>

\* MigrateToNewFile, lines 223-232: the new database is opened at newDbPath
\* and the schema is run in it; when that fails the file is removed.
MigrateExec(p) ==
    /\ pc[p] = "m_exec"
    /\ LET f == Touch(fs, TmpPath, Held)
           i == f.path[TmpPath]
           r == Exec(f.disk[i], arg[p])
       IN  IF r.ok
           THEN /\ fs' = WriteIno(f, i, r.db)
                /\ conn' = [conn EXCEPT ![p] = i]
                /\ Goto(p, "m_copy") /\ UNCHANGED res
           ELSE /\ fs' = Remove(WriteIno(f, i, r.db), TmpPath, Held)
                /\ UNCHANGED conn
                /\ Leave(p, Err("schema"))
    /\ UNCHANGED <<lockIno, holder, fd, op, arg, snap, hist, ncalls>>

\* MigrateToNewFile, lines 234-293: the version rows and the rows of the
\* common tables are copied from the file at oldDbPath into newDB; when a
\* copy fails newDB is closed and the file at newDbPath removed.  Migrate,
\* line 179, closes newDB when MigrateToNewFile returned it.
MigrateCopy(p) ==
    /\ pc[p] = "m_copy"
    /\ LET f     == Touch(fs, DbPath, Held)
           oldDB == Content(f, DbPath)
           r     == CopyTables(oldDB, CopyVersionTable(oldDB, f.disk[conn[p]]))
       IN  IF r.ok
           THEN /\ fs' = Collect(WriteIno(f, conn[p], r.db), HeldBut(p))
                /\ Goto(p, "m_rename") /\ UNCHANGED res
           ELSE /\ fs' = Remove(f, TmpPath, HeldBut(p))
                /\ Leave(p, Err("copy"))
    /\ conn' = [conn EXCEPT ![p] = 0]
    /\ UNCHANGED <<lockIno, holder, fd, op, arg, snap, hist, ncalls>>

\* Migrate, lines 181-183: os.Rename(newDbPath, dbPath)
MigrateRename(p) ==
    /\ pc[p] = "m_rename"
    /\ IF fs.path[TmpPath] = 0
       THEN Leave(p, Err("rename")) /\ UNCHANGED fs
       ELSE /\ fs' = Rename(fs, TmpPath, DbPath, Held)
            /\ Goto(p, "m_rec") /\ UNCHANGED res
    /\ UNCHANGED <<lockIno, holder, fd, conn, op, arg, snap, hist, ncalls>>

\* Migrate, lines 185-209: the migrated file is opened, the next version
\* number is the current one plus one (1 when there is none, or when reading
\* it failed: the error of getCurrentSchemaVersion is dropped), and the
\* version is recorded.
MigrateRecord(p) ==
    /\ pc[p] = "m_rec"
    /\ LET f == Touch(fs, DbPath, Held)
       IN  \E cv \in getCurrentSchemaVersion(Content(f, DbPath)) :
             LET nextVersion == IF cv.nil THEN 1 ELSE cv.version + 1
             IN  fs' = WriteIno(f, f.path[DbPath],
                                recordSchemaVersion(Content(f, DbPath), nextVersion,
                                                    calculateSchemaHash(arg[p])))
    /\ Leave(p, Ok("migrated"))
    /\ UNCHANGED <<lockIno, holder, fd, conn, op, arg, snap, hist, ncalls>>

\* A deferred function that forgets to unlock.
SkipUnlock(p) ==
    /\ pc[p] = "m_unlock"
    /\ Goto(p, "m_remove")
    /\ UNCHANGED <<fs, lockIno, holder, fd, conn, op, arg, res, snap, hist, ncalls>>

\* Migrate, line 144 (deferred): tmpLock.Unlock()
Unlock(p) ==
    /\ pc[p] = "m_unlock"
    /\ holder' = [holder EXCEPT ![fd[p]] = 0]
    /\ fd' = [fd EXCEPT ![p] = 0]
    /\ Goto(p, "m_remove")
    /\ UNCHANGED <<fs, lockIno, conn, op, arg, res, snap, hist, ncalls>>

\* A deferred clean-up that leaves the lock file where it is.
LeaveLockFile(i) == i

\* What os.Remove(lockPath) leaves at the lock path.
RemoveLock(i) == 0

\* Migrate, line 145 (deferred): os.Remove(lockPath), then the call returns
LockRemove(p) ==
    /\ pc[p] = "m_remove"
    /\ lockIno' = RemoveLock(lockIno)
    /\ Return(p, res[p])
    /\ UNCHANGED <<fs, holder, fd, conn, op, arg, snap, ncalls>>

\* ------------------------------------------------------- MigrateToNewFile

\* MigrateToNewFile(schema, oldDbPath, newDbPath), lines 216-294, on the
\* files f: the new database is opened (created when there is no file) and
\* the schema run in it; then the old database is opened (created when
\* there is no file) and the version rows and the rows of the common tables
\* are copied.  On a failure newDB is closed and os.Remove(newDbPath) runs.
MigrateToNewFile(f, schema, oldDbPath, newDbPath, held) ==
    LET g == Touch(f, newDbPath, held)
        i == g.path[newDbPath]
        r == Exec(g.disk[i], schema)
    IN  IF ~r.ok
        THEN [res |-> Err("schema"),
              fs  |-> Remove(WriteIno(g, i, r.db), newDbPath, held)]
        ELSE LET h     == Touch(WriteIno(g, i, r.db), oldDbPath, held \cup {i})
                 oldDB == Content(h, oldDbPath)
                 c     == CopyTables(oldDB, CopyVersionTable(oldDB, h.disk[i]))
             IN  IF c.ok
                 THEN [res |-> Ok("copied"), fs |-> Collect(WriteIno(h, i, c.db), held)]
                 ELSE [res |-> Err("copy"), fs |-> Remove(h, newDbPath, held)]

\* The program calls MigrateToNewFile(s, dbPath, new) and closes the handle
\* it gets.
MigrateToNewFileCall(p, s, new, max) ==
    /\ pc[p] \in {"idle", "done"}
    /\ ncalls[p] < max
    /\ ncalls' = [ncalls EXCEPT ![p] = @ + 1]
    /\ op' = [op EXCEPT ![p] = "MigrateToNewFile"]
    /\ arg' = [arg EXCEPT ![p] = s]
    /\ snap' = [snap EXCEPT ![p] = Files(fs)]
    /\ LET m == MigrateToNewFile(fs, s, DbPath, new, Held)
       IN  /\ fs' = m.fs
           /\ pc' = [pc EXCEPT ![p] = "done"]
           /\ res' = [res EXCEPT ![p] = m.res]
           /\ hist' = [hist EXCEPT ![p] =
                         Remember(@, [op |-> "MigrateToNewFile", schema |-> s,
                                      res |-> m.res, quiet |-> TRUE])]
    /\ UNCHANGED <<lockIno, holder, fd, conn>>

\* The program calls FindCommonColumns(oldColumns, newColumns) on lists of
\* its own, lines 472-485; nothing but the returned list changes.
FindCommonColumnsCall(p, oldColumns, newColumns) ==
    /\ pc[p] = "idle"
    /\ ncalls' = [ncalls EXCEPT ![p] = @ + 1]
    /\ op' = [op EXCEPT ![p] = "FindCommonColumns"]
    /\ arg' = [arg EXCEPT ![p] = <<oldColumns, newColumns>>]
    /\ snap' = [snap EXCEPT ![p] = Files(fs)]
    /\ LET r == [ok |-> TRUE, kind |-> "columns",
                 columns |-> FindCommonColumns(oldColumns, newColumns)]
       IN  /\ pc' = [pc EXCEPT ![p] = "done"]
           /\ res' = [res EXCEPT ![p] = r]
           /\ hist' = [hist EXCEPT ![p] =
                         Remember(@, [op |-> "FindCommonColumns",
                                      schema |-> <<oldColumns, newColumns>>,
                                      res |-> r, quiet |-> TRUE])]
    /\ UNCHANGED <<fs, lockIno, holder, fd, conn>>

\* ------------------------------------------------------------- environment

\* The user of a returned handle inserts a row into a table of the database.
UserInsert(p) ==
    /\ pc[p] \in {"idle", "done"}
    /\ fs.path[DbPath] # 0
    /\ \E tb \in Content(fs, DbPath).tabs : \E vals \in UserRows(tb) :
         LET r == InsertRow(Content(fs, DbPath), tb.name, vals)
         IN  /\ Len(Content(fs, DbPath).rows[tb.name]) < MaxRows
             /\ r.ok
             /\ fs' = WriteIno(fs, fs.path[DbPath], r.db)
    /\ Goto(p, "idle")
    /\ hist' = [hist EXCEPT ![p] = Disturb(@)]
    /\ UNCHANGED <<lockIno, holder, fd, conn, op, arg, res, snap, ncalls>>

\* The user does what the backward-migration error message (lines 88 and
\* 168) says: DELETE FROM _autosqlite_version.  The table stays, empty.
ClearVersions(p) ==
    /\ pc[p] \in {"idle", "done"}
    /\ fs.path[DbPath] # 0
    /\ Content(fs, DbPath).hasVer /\ Content(fs, DbPath).ver # <<>>
    /\ fs' = WriteIno(fs, fs.path[DbPath], [Content(fs, DbPath) EXCEPT !.ver = <<>>])
    /\ Goto(p, "idle")
    /\ hist' = [hist EXCEPT ![p] = Disturb(@)]
    /\ UNCHANGED <<lockIno, holder, fd, conn, op, arg, res, snap, ncalls>>

\* Migrate, lines 181-183: os.Rename fails
RenameFail(p) ==
    /\ pc[p] = "m_rename"
    /\ Leave(p, Err("rename"))
    /\ UNCHANGED <<fs, lockIno, holder, fd, conn, op, arg, snap, hist, ncalls>>

\* Migrate, lines 204-207: recordSchemaVersion fails
RecordFail(p) ==
    /\ pc[p] = "m_rec"
    /\ Leave(p, Err("record"))
    /\ UNCHANGED <<fs, lockIno, holder, fd, conn, op, arg, snap, hist, ncalls>>

\* MigrateToNewFile, lines 234-237: the query that looks the version table
\* up in sqlite_master fails; Scan returns the error, the condition
\* "err == nil && ..." is false, and the call goes on to the tables without
\* copying the version rows.
LookupFail(p) ==
    /\ pc[p] = "m_copy"
    /\ Content(fs, DbPath).hasVer
    /\ LET f     == Touch(fs, DbPath, Held)
           oldDB == Content(f, DbPath)
           r     == CopyTables(oldDB, f.disk[conn[p]])
       IN  IF r.ok
           THEN /\ fs' = Collect(WriteIno(f, conn[p], r.db), HeldBut(p))
                /\ Goto(p, "m_rename") /\ UNCHANGED res
           ELSE /\ fs' = Remove(f, TmpPath, HeldBut(p))
                /\ Leave(p, Err("copy"))
    /\ conn' = [conn EXCEPT ![p] = 0]
    /\ UNCHANGED <<lockIno, holder, fd, op, arg, snap, hist, ncalls>>

\* Migrate, lines 191-196: getCurrentSchemaVersion fails on the migrated
\* file; its error is dropped, currentVersion is nil and nextVersion stays 1.
CurrentVersionFail(p) ==
    /\ pc[p] = "m_rec"
    /\ Content(fs, DbPath).hasVer
    /\ LET f == Touch(fs, DbPath, Held)
       IN  fs' = WriteIno(f, f.path[DbPath],
                          recordSchemaVersion(Content(f, DbPath), 1,
                                              calculateSchemaHash(arg[p])))
    /\ Leave(p, Ok("migrated"))
    /\ UNCHANGED <<lockIno, holder, fd, conn, op, arg, snap, hist, ncalls>>

\* MigrateTable, lines 436-439: rows.Scan fails on a row of a table that is
\* being copied; the transaction is rolled back, and MigrateToNewFile (lines
\* 285-289) closes newDB and removes the file at newDbPath.
ScanFail(p) ==
    /\ pc[p] = "m_copy"
    /\ \E t \in GetTables(fs.disk[conn[p]]) \cap GetTables(Content(fs, DbPath)) :
         /\ FindCommonColumns(GetColumns(Content(fs, DbPath), t),
                              GetColumns(fs.disk[conn[p]], t)) # <<>>
         /\ Content(fs, DbPath).rows[t] # <<>>
    /\ fs' = Remove(Touch(fs, DbPath, Held), TmpPath, HeldBut(p))
    /\ conn' = [conn EXCEPT ![p] = 0]
    /\ Leave(p, Err("copy"))
    /\ UNCHANGED <<lockIno, holder, fd, op, arg, snap, hist, ncalls>>

\* The process of a caller stops inside Migrate: the kernel closes its files,
\* which releases its flock; nothing it deferred runs.
Crash(p) ==
    /\ op[p] = "Migrate"
    /\ pc[p] \in {"m_lock", "m_eq", "m_fwd", "m_backup", "m_exec", "m_copy",
                  "m_rename", "m_rec", "m_unlock", "m_remove"}
    /\ Goto(p, "crashed")
    /\ holder' = [i \in LockInos |-> IF holder[i] = p THEN 0 ELSE holder[i]]
    /\ fd' = [fd EXCEPT ![p] = 0]
    /\ conn' = [conn EXCEPT ![p] = 0]
    /\ fs' = Collect(fs, HeldBut(p))
    /\ UNCHANGED <<lockIno, op, arg, res, snap, hist, ncalls>>

\* ---------------------------------------------------------- specifications

OpenExisting(p) == OpenStat(p) \/ OpenEqual(p) \/ OpenDirection(p)

OpenFresh(p) == OpenPing(p) \/ OpenExec(p) \/ OpenRecord(p)

OpenSteps(p) == OpenExisting(p) \/ OpenFresh(p)

MigrateSteps(p) ==
    \/ LockOpen(p) \/ LockAcquire(p) \/ MigrateEqual(p) \/ MigrateDirection(p)
    \/ MigrateBackup(p) \/ MigrateExec(p) \/ MigrateCopy(p) \/ MigrateRename(p)
    \/ MigrateRecord(p) \/ Unlock(p) \/ LockRemove(p)

\* One caller, one Open after the other, on a path where no file exists at
\* first, with schemas that differ in their catalog, in their normalized
\* text, in both or in neither; the user inserts rows between the calls.
LineageSchemas == {SchemaV1, SchemaV1Indented, SchemaV1Pragma, SchemaV2, SchemaInvalid}

Init == fs = NoFs /\ InitProcs

Next ==
    \/ \E s \in LineageSchemas : CallOpen(1, s, MaxCalls)
    \/ OpenSteps(1)
    \/ MigrateSteps(1)
    \/ UserInsert(1)

Spec == Init /\ [][Next]_vars

\* One caller, one Open after the other, with schemas that add and drop
\* columns and tables and insert rows of their own.
DataSchemas ==
    {SchemaV1, SchemaV2, SchemaV2DropName, SchemaV1WithPosts, SchemaV2Seeded,
     SchemaPostsSeeded}

NextData ==
    \/ \E s \in DataSchemas : CallOpen(1, s, MaxDataCalls)
    \/ OpenSteps(1)
    \/ MigrateSteps(1)
    \/ UserInsert(1)

SpecData == Init /\ [][NextData]_vars

\* One caller calling Open and Migrate; os.Rename and recordSchemaVersion may
\* fail.
FaultSchemas == {SchemaV1, SchemaV2, SchemaInvalid}

NextFault ==
    \/ \E s \in FaultSchemas : CallOpen(1, s, MaxFaultCalls)
    \/ \E s \in FaultSchemas : CallMigrate(1, s, MaxFaultCalls)
    \/ OpenSteps(1)
    \/ MigrateSteps(1)
    \/ UserInsert(1)
    \/ RenameFail(1)
    \/ RecordFail(1)

SpecFault == Init /\ [][NextFault]_vars

\* The same, and the queries that read the version table may fail as well.
NextRead ==
    \/ NextFault
    \/ LookupFail(1)
    \/ CurrentVersionFail(1)

SpecRead == Init /\ [][NextRead]_vars

\* One caller, one Open after the other; between the calls the user may
\* insert rows and may clear out the version table.
ClearSchemas == {SchemaV1, SchemaV2}

NextClear ==
    \/ \E s \in ClearSchemas : CallOpen(1, s, MaxClearCalls)
    \/ OpenSteps(1)
    \/ MigrateSteps(1)
    \/ UserInsert(1)
    \/ ClearVersions(1)

SpecClear == Init /\ [][NextClear]_vars

\* The database Open creates from a schema on a path with no file.
Created(schema) ==
    recordSchemaVersion(Exec(EmptyDb, schema).db, 1, calculateSchemaHash(schema))

\* The database the concurrent callers start from: created from SchemaV1,
\* with two rows a user inserted since, one of them with a NULL name.
StartDb ==
    LET r1 == [c \in {"id", "name"} |-> DataVal(c)]
        r2 == [c \in {"id", "name"} |-> IF c = "id" THEN 12 ELSE NULL]
    IN  [Created(SchemaV1) EXCEPT !.rows["users"] = <<r1, r2>>]

FsWith(db) ==
    [path |-> [x \in Paths |-> IF x = DbPath THEN 1 ELSE 0],
     disk |-> [i \in Inos |-> IF i = 1 THEN db ELSE NoFile]]

\* A database made with sqlite alone from SchemaV1: no version table.
Untracked == Exec(EmptyDb, SchemaV1).db

\* One caller calling Open and SchemasEqual, on a path with no file or with
\* a database the program did not create.
EqualSchemas == {SchemaV1, SchemaV1Indented, SchemaV2, SchemaV1ThenJunk}

InitEqual == fs \in {NoFs, FsWith(Untracked)} /\ InitProcs

NextEqual ==
    \/ \E s \in EqualSchemas : CallOpen(1, s, MaxEqualCalls)
    \/ \E s \in EqualSchemas : CallSchemasEqual(1, s, MaxEqualCalls)
    \/ SchemasEqualCall(1)
    \/ OpenSteps(1)
    \/ MigrateSteps(1)
    \/ UserInsert(1)

SpecEqual == InitEqual /\ [][NextEqual]_vars

\* One caller calling Open and MigrateToNewFile, the latter with the
\* database path as the old path and any of the paths as the new one.
NewFileSchemas == {SchemaV1, SchemaV2, SchemaInvalid}

NextNewFile ==
    \/ \E s \in NewFileSchemas : CallOpen(1, s, MaxNewFileCalls)
    \/ \E s \in NewFileSchemas, new \in Paths :
           MigrateToNewFileCall(1, s, new, MaxNewFileCalls)
    \/ OpenSteps(1)
    \/ MigrateSteps(1)
    \/ UserInsert(1)

SpecNewFile == Init /\ [][NextNewFile]_vars

\* One caller calling Open and Migrate with schemas that declare the name
\* column nullable, NOT NULL, and NOT NULL with a default; the user inserts
\* rows, some of them with a NULL name.
NullSchemas == {SchemaV1, SchemaNameNotNull, SchemaNameDefault}

NextNull ==
    \/ \E s \in NullSchemas : CallOpen(1, s, MaxNullCalls)
    \/ \E s \in NullSchemas : CallMigrate(1, s, MaxNullCalls)
    \/ OpenSteps(1)
    \/ MigrateSteps(1)
    \/ UserInsert(1)

SpecNull == Init /\ [][NextNull]_vars

\* The same, and reading a row of the old table may fail.
NextCopy ==
    \/ NextNull
    \/ ScanFail(1)

SpecCopy == Init /\ [][NextCopy]_vars

\* One caller, one Open after the other, with schemas whose users tables
\* have no column in common.
DisjointSchemas == {SchemaV1, SchemaEmailOnly, SchemaEmailSeeded}

NextDisjoint ==
    \/ \E s \in DisjointSchemas : CallOpen(1, s, MaxDataCalls)
    \/ OpenSteps(1)
    \/ MigrateSteps(1)
    \/ UserInsert(1)

SpecDisjoint == Init /\ [][NextDisjoint]_vars

\* One call of FindCommonColumns on any two lists of column names of at most
\* MaxColumns names, a name possibly more than once in a list.
ColumnNamePool == {"id", "name", "email"}

ColumnLists == UNION {[1..n -> ColumnNamePool] : n \in 0..MaxColumns}

NextColumns ==
    \E oldColumns \in ColumnLists, newColumns \in ColumnLists :
        FindCommonColumnsCall(1, oldColumns, newColumns)

SpecColumns == Init /\ [][NextColumns]_vars

\* Several callers, each calling Migrate once, on an existing database.
ConcSchemas == {SchemaV2, SchemaV2DropName}

InitConc == fs = FsWith(StartDb) /\ InitProcs

CallOnce(p, s) == CallMigrate(p, s, 1)

NextConc ==
    \E p \in Procs :
        \/ \E s \in ConcSchemas : CallOnce(p, s)
        \/ MigrateSteps(p)

SpecConc == InitConc /\ [][NextConc]_vars

\* Several callers, each calling Open once with the same schema, on a path
\* where no file exists.
NextOpenConc ==
    \E p \in Procs :
        \/ CallOpen(p, SchemaV1, 1)
        \/ OpenSteps(p)
        \/ MigrateSteps(p)

SpecOpenConc == Init /\ [][NextOpenConc]_vars

\* The same callers, each of them scheduled again and again while it has a
\* step to take: a goroutine or process that can run is eventually run, and
\* a caller blocked in flock is woken when the lock is released.
Fairness == \A p \in Procs : WF_vars(MigrateSteps(p))

NextLive ==
    \E p \in Procs :
        \/ CallOnce(p, SchemaV2)
        \/ MigrateSteps(p)

SpecLive == InitConc /\ [][NextLive]_vars /\ Fairness

\* A caller calls Migrate on an existing database and its process may stop
\* at any point of the call; after that another caller calls Open.
CrashSchemas == {SchemaV1, SchemaV2, SchemaV2DropName}

NextCrash ==
    \/ \E s \in ConcSchemas : CallOnce(1, s)
    \/ MigrateSteps(1)
    \/ Crash(1)
    \/ \E s \in CrashSchemas : pc[1] = "crashed" /\ CallOpen(2, s, 1)
    \/ OpenExisting(2)
    \/ MigrateSteps(2)

SpecCrash == InitConc /\ [][NextCrash]_vars

\* The same, with a schema that creates its table only if it is not there:
\* the file the stopped call left at P + ".tmp" is there when the next call
\* begins.
StaleSchemas == {SchemaV2, SchemaV2IfNotExists}

NextStale ==
    \/ \E s \in StaleSchemas : CallOnce(1, s)
    \/ MigrateSteps(1)
    \/ Crash(1)
    \/ \E s \in StaleSchemas : pc[1] = "crashed" /\ CallOpen(2, s, 1)
    \/ OpenExisting(2)
    \/ MigrateSteps(2)

SpecStale == InitConc /\ [][NextStale]_vars

\* ------------------------------------------------------------------ claims

Now(x) == Content(fs, x)

\* The catalog a schema produces in an empty database.
CatalogOf(schema) == Exec(EmptyDb, schema).db.tabs

\* Two schema texts that differ in what they create and in what they hash to.
Differ(s1, s2) ==
    /\ CatalogOf(s1) # CatalogOf(s2)
    /\ calculateSchemaHash(s1) # calculateSchemaHash(s2)

\* The schema text executes without error on an empty database.
Valid(schema) == Exec(EmptyDb, schema).ok

LastCalls(p, n) == SubSeq(hist[p], Len(hist[p]) - n + 1, Len(hist[p]))

Returned(p) == pc[p] = "done"

\* C1: after Open(S1,P) and then Open(S2,P) both succeeded, S2 different from
\* S1, the next Open(S1,P) returns the backward-migration error and leaves
\* the file at P as it was.
C1_BackwardRejected ==
    \A p \in Procs :
        (Returned(p) /\ Len(hist[p]) >= 3) =>
            LET h == LastCalls(p, 3)
            IN  (/\ h[1].op = "Open" /\ h[1].res.ok
                 /\ h[2].op = "Open" /\ h[2].res.ok
                 /\ h[3].op = "Open" /\ h[3].schema = h[1].schema
                 /\ Differ(h[1].schema, h[2].schema))
                => (h[3].res = Err("backward") /\ Now(DbPath) = snap[p][DbPath])

\* C2: at most one caller at a time is between acquiring the migration lock
\* and releasing it.
InRegion(p) ==
    pc[p] \in {"m_eq", "m_fwd", "m_backup", "m_exec", "m_copy", "m_rename", "m_rec",
               "m_unlock"}

C2_MutualExclusion ==
    \A p, q \in Procs : (p # q /\ InRegion(p)) => ~InRegion(q)

\* C3: when Migrate on an existing database returns an error, the file at P
\* is what it was before the call.
C3_FailureLeavesFile ==
    \A p \in Procs :
        (Returned(p) /\ op[p] = "Migrate" /\ ~res[p].ok /\ snap[p][DbPath].exists)
            => Now(DbPath) = snap[p][DbPath]

\* What a table copy must produce from the old rows: every old row, in
\* order, with the columns the new table shares with the old one kept and
\* the other columns of the new table at their default.
Projected(oldRows, oldTb, newTb) ==
    LET oldNames == {oldTb.cols[i].name : i \in 1..Len(oldTb.cols)}
        shared   == \E i \in 1..Len(newTb.cols) : newTb.cols[i].name \in oldNames
    IN  IF ~shared THEN <<>>
        ELSE [k \in 1..Len(oldRows) |->
                [c \in {newTb.cols[i].name : i \in 1..Len(newTb.cols)} |->
                    IF c \in oldNames THEN oldRows[k][c]
                    ELSE (CHOOSE col \in {newTb.cols[i] : i \in 1..Len(newTb.cols)} :
                              col.name = c).df]]

\* The rows the INSERT statements of a schema put into table t.
SeedRows(schema, t) == Exec(EmptyDb, schema).db.rows[t]

AllReturned == \A p \in Procs : Returned(p)

\* C4: when all callers called Migrate with the same schema on the database
\* created from SchemaV1, every call succeeds, one of them migrated, the
\* file has the catalog of the schema and every old row once, and the
\* lineage has one row more, with the next ordinal.
C4_ConcurrentSameTarget ==
    (AllReturned /\ \A p \in Procs : arg[p] = arg[1]) =>
        /\ \A p \in Procs : res[p].ok
        /\ Cardinality({p \in Procs : res[p].kind = "migrated"}) = 1
        /\ SchemasEqual(arg[1], Now(DbPath))
        /\ Now(DbPath).rows["users"] =
              Projected(StartDb.rows["users"], TableOf(StartDb, "users"),
                        TableOf(Now(DbPath), "users"))
        /\ Now(DbPath).ver =
              Append(StartDb.ver,
                     [version |-> 2, hash |-> calculateSchemaHash(arg[1])])

C4_Witness ==
    /\ AllReturned /\ \A p \in Procs : arg[p] = SchemaV2
    /\ res[1].kind = "asis" /\ res[2].kind = "migrated" /\ res[3].kind = "asis"
    /\ Len(Now(DbPath).rows["users"]) = 2

\* C5: the second of two consecutive Open(S,P) calls creates no backup, adds
\* no lineage row and leaves the rows as they are.
C5_SecondOpenIdle ==
    \A p \in Procs :
        (Returned(p) /\ Len(hist[p]) >= 2) =>
            LET h == LastCalls(p, 2)
            IN  (/\ h[1].op = "Open" /\ h[2].op = "Open"
                 /\ h[1].schema = h[2].schema /\ h[1].quiet)
                => (/\ Now(BackupPath) = snap[p][BackupPath]
                    /\ Now(DbPath).ver = snap[p][DbPath].ver
                    /\ Now(DbPath).rows = snap[p][DbPath].rows)

Migrated(p) == Returned(p) /\ res[p] = Ok("migrated")

Common(p) == TableNames(Now(DbPath)) \cap TableNames(snap[p][DbPath])

\* C6, as claimed: after a migration every table of both schemas holds
\* exactly the old rows projected onto the common columns.
C6_OnlyOldRows ==
    \A p \in Procs : Migrated(p) =>
        \A t \in Common(p) :
            Now(DbPath).rows[t] =
                Projected(snap[p][DbPath].rows[t], TableOf(snap[p][DbPath], t),
                          TableOf(Now(DbPath), t))

\* C6, amended: after a migration every table of both schemas holds the rows
\* the INSERT statements of the new schema put into it, followed by exactly
\* the old rows projected onto the common columns (columns only the new
\* schema has at NULL or their default), and it has the columns of the new
\* schema and no other.
C6_SeedThenOldRows ==
    \A p \in Procs : Migrated(p) =>
        /\ Now(DbPath).tabs = CatalogOf(arg[p])
        /\ \A t \in Common(p) :
             Now(DbPath).rows[t] =
                SeedRows(arg[p], t) \o
                Projected(snap[p][DbPath].rows[t], TableOf(snap[p][DbPath], t),
                          TableOf(Now(DbPath), t))

C6_Witness ==
    /\ Migrated(1) /\ arg[1] = SchemaV2DropName
    /\ TableOf(snap[1][DbPath], "users").cols = TableOf(Exec(EmptyDb, SchemaV2).db, "users").cols
    /\ Len(snap[1][DbPath].rows["users"]) = 2
    /\ Now(DbPath).rows["users"] = <<[id |-> 11], [id |-> 12]>>

\* C7, as claimed: after a migration a table only the new schema has exists
\* and is empty, a table only the old schema had is absent, and the backup
\* holds the old file.
TableNamesOf(schema) == {tb.name : tb \in CatalogOf(schema)}

C7_NewTableEmpty ==
    \A p \in Procs : Migrated(p) =>
        /\ \A t \in TableNamesOf(arg[p]) \ TableNames(snap[p][DbPath]) :
             t \in GetTables(Now(DbPath)) /\ Now(DbPath).rows[t] = <<>>
        /\ \A t \in TableNames(snap[p][DbPath]) \ TableNamesOf(arg[p]) :
             /\ t \notin GetTables(Now(DbPath))
             /\ t \in GetTables(Now(BackupPath))
             /\ Now(BackupPath).rows[t] = snap[p][DbPath].rows[t]

\* C7, amended: after a migration a table only the new schema has exists and
\* holds exactly the rows the INSERT statements of the new schema put into it
\* (none when it has none), a table only the old schema had is absent, and
\* the backup holds the old file with the rows of that table.
C7_NewTableSeedOnly ==
    \A p \in Procs : Migrated(p) =>
        /\ \A t \in TableNamesOf(arg[p]) \ TableNames(snap[p][DbPath]) :
             t \in GetTables(Now(DbPath)) /\ Now(DbPath).rows[t] = SeedRows(arg[p], t)
        /\ \A t \in TableNames(snap[p][DbPath]) \ TableNamesOf(arg[p]) :
             /\ t \notin GetTables(Now(DbPath))
             /\ t \in GetTables(Now(BackupPath))
             /\ Now(BackupPath).rows[t] = snap[p][DbPath].rows[t]

C7_Witness ==
    /\ Migrated(1) /\ arg[1] = SchemaV2
    /\ "posts" \in TableNames(snap[1][DbPath])
    /\ Len(snap[1][DbPath].rows["posts"]) = 2
    /\ Len(hist[1]) = 3 /\ hist[1][2].schema = SchemaV1WithPosts
    /\ hist[1][2].res = Ok("migrated")
    /\ "posts" \notin GetTables(Now(DbPath))
    /\ Len(Now(BackupPath).rows["posts"]) = 2

\* C8: after a Migrate to S2 was interrupted, no step replaces a file that
\* has the structure of S2 by one that has the structure of S1, the schema
\* the database had when the interrupted call began.
C8_NoSilentDowngrade ==
    [][(pc[1] = "crashed" /\ Now(DbPath).tabs = CatalogOf(arg[1]))
          => Content(fs', DbPath).tabs # CatalogOf(SchemaV1)]_vars

\* C9: a database created with S2, then Open(S1,P) with a schema S1 never
\* applied to it: the call fails with the backward-migration error and the
\* file is unchanged.
C9_OlderProgramRejected ==
    \A p \in Procs :
        (Returned(p) /\ ncalls[p] = 2 /\ Len(hist[p]) = 2) =>
            LET h == hist[p]
            IN  (/\ h[1].op = "Open" /\ h[1].res = Ok("created")
                 /\ h[2].op = "Open" /\ Valid(h[2].schema)
                 /\ Differ(h[1].schema, h[2].schema))
                => (h[2].res = Err("backward") /\ Now(DbPath) = snap[p][DbPath])

\* C10: when a call has returned, no file exists at P + ".tmp".
C10_NoTmpAfterReturn ==
    \A p \in Procs : Returned(p) => fs.path[TmpPath] = 0

\* C11: when the schema text fails to execute, Migrate on an existing
\* database returns an error, the file at P is what it was before the call
\* (catalog, lineage rows, row data), and no file is at P + ".tmp".
C11_InvalidSchemaLeavesFile ==
    \A p \in Procs :
        (Returned(p) /\ op[p] = "Migrate" /\ ~Valid(arg[p]) /\ snap[p][DbPath].exists)
            => /\ ~res[p].ok
               /\ Now(DbPath) = snap[p][DbPath]
               /\ fs.path[TmpPath] = 0

C11_Witness ==
    /\ Returned(1) /\ op[1] = "Migrate" /\ arg[1] = SchemaInvalid
    /\ res[1] = Err("schema")
    /\ snap[1][DbPath].tabs = CatalogOf(SchemaV2)
    /\ Len(snap[1][DbPath].ver) = 2
    /\ Len(snap[1][DbPath].rows["users"]) = 1
    /\ Now(DbPath) = snap[1][DbPath]

\* C12: when Migrate performs a migration, the file at P + ".backup" exists
\* when the rename replaces P, it is byte for byte the file the rename
\* replaces, and the rename leaves it as it is.
C12_BackupBeforeRename ==
    [][\A p \in Procs :
         (pc[p] = "m_rename" /\ pc'[p] = "m_rec")
             => /\ Now(BackupPath).exists
                /\ Now(BackupPath) = Now(DbPath)
                /\ Content(fs', BackupPath) = Now(BackupPath)]_vars

\* C13: a caller removes the lock file only when no other caller has it
\* open, holding the lock on it or waiting for it.
C13_RemoveOnlyUncontended ==
    [][\A p \in Procs :
         (pc[p] = "m_remove" /\ pc'[p] = "done" /\ lockIno # 0)
             => \A q \in Procs \ {p} : fd[q] # lockIno]_vars

\* C14: on every exit path of Migrate the lock the call acquired is released
\* when the call has returned.
C14_LockReleasedOnExit ==
    \A p \in Procs :
        pc[p] \in {"idle", "done"} =>
            /\ fd[p] = 0
            /\ \A i \in LockInos : holder[i] # p

C14_Witness ==
    /\ Returned(1) /\ Len(hist[1]) = 3
    /\ \A k \in 1..3 : hist[1][k].op = "Migrate"
    /\ hist[1][1].res = Ok("migrated")
    /\ hist[1][2].res = Err("schema")
    /\ hist[1][3].res = Err("record")
    /\ \A i \in LockInos : holder[i] = 0

\* C15: a caller that finds the lock held waits, it does not fail; and no
\* caller stays in its call forever: every caller, the ones that had to wait
\* for the lock included, eventually acquires it and its call returns, with
\* success.
C15_BlockedCallersProceed ==
    /\ [][\A p \in Procs :
            (pc[p] = "m_lock" /\ holder[fd[p]] # 0) => pc'[p] = "m_lock"]_vars
    /\ \A p \in Procs : []<>(pc[p] \in {"idle", "done"})
    /\ [](\A p \in Procs : Returned(p) => res[p].ok)

C15_Witness ==
    /\ pc[2] = "m_lock" /\ holder[fd[2]] = 1
    /\ pc[3] = "m_lock" /\ fd[3] = fd[2]
    /\ pc[1] = "m_rename"

InCall(p) == pc[p] \notin {"idle", "done", "crashed"}

\* db is the completely built database for schema from the database old:
\* the catalog of the schema, in every table the rows the schema inserts and
\* then all the old rows of that table, and the old lineage rows, followed
\* by at most one more.
Complete(db, old, schema) ==
    /\ db.exists
    /\ db.tabs = CatalogOf(schema)
    /\ \A t \in TableNames(db) :
         db.rows[t] =
            SeedRows(schema, t) \o
            (IF t \in TableNames(old)
             THEN Projected(old.rows[t], TableOf(old, t), TableOf(db, t))
             ELSE <<>>)
    /\ Len(db.ver) \in {Len(old.ver), Len(old.ver) + 1}
    /\ SubSeq(db.ver, 1, Len(old.ver)) = old.ver

\* C16: from the call of Migrate on an existing file until it returns, a
\* file exists at P and it is either the database as it was before the call
\* or the completely built new database, never anything in between.
C16_OldOrCompleteNew ==
    \A p \in Procs :
        (InCall(p) /\ snap[p][DbPath].exists) =>
            /\ Now(DbPath).exists
            /\ \/ Now(DbPath) = snap[p][DbPath]
               \/ Complete(Now(DbPath), snap[p][DbPath], arg[p])

C16_Witness ==
    /\ pc[1] = "m_rec" /\ op[1] = "Migrate" /\ arg[1] = SchemaV2
    /\ snap[1][DbPath].tabs = CatalogOf(SchemaV1)
    /\ Len(snap[1][DbPath].rows["users"]) = 2
    /\ Now(DbPath) # snap[1][DbPath]
    /\ Now(DbPath).tabs = CatalogOf(SchemaV2)
    /\ Len(Now(DbPath).rows["users"]) = 2

\* The lineage rows new are the rows old, unchanged and in place, followed
\* by rows whose version is greater than every version before them.
Grows(old, new) ==
    /\ Len(new) >= Len(old)
    /\ SubSeq(new, 1, Len(old)) = old
    /\ \A i \in (Len(old) + 1)..Len(new) :
         \A j \in 1..(i - 1) : new[i].version > new[j].version

\* C17: the lineage rows of the file at P only grow: no step of Open or
\* Migrate changes or drops a row, and every row added has a version greater
\* than every version already there.
C17_LineageOnlyGrows ==
    [][Grows(Now(DbPath).ver, Content(fs', DbPath).ver)]_vars

\* C18: the version table of the file at P never holds two rows with the
\* same schema hash.
C18_NoDuplicateHash ==
    LET ver == Now(DbPath).ver
    IN  \A i, j \in 1..Len(ver) : ver[i].hash = ver[j].hash => i = j

\* The greatest version among lineage rows, 0 when there is none.
MaxOrdinal(ver) ==
    IF ver = <<>> THEN 0
    ELSE CHOOSE v \in {ver[i].version : i \in 1..Len(ver)} :
             \A i \in 1..Len(ver) : ver[i].version <= v

\* The rows of greatest version.
Top(ver) == {ver[i] : i \in {j \in 1..Len(ver) : ver[j].version = MaxOrdinal(ver)}}

\* C19: when a migration returned success, the row of greatest version in
\* the file at P has the hash of the schema and the version one more than
\* the greatest version of the old file (1 when the old file had no row);
\* when Open created the database, the file holds exactly one row, with
\* version 1 and the hash of the schema.
C19_RecordsNextVersion ==
    \A p \in Procs :
        /\ Migrated(p) =>
              Top(Now(DbPath).ver) =
                  {[version |-> MaxOrdinal(snap[p][DbPath].ver) + 1,
                    hash    |-> calculateSchemaHash(arg[p])]}
        /\ (Returned(p) /\ res[p] = Ok("created")) =>
              Now(DbPath).ver =
                  <<[version |-> 1, hash |-> calculateSchemaHash(arg[p])]>>

C19_Witness ==
    /\ Len(hist[1]) = 2
    /\ hist[1][1].op = "Open" /\ hist[1][1].res = Ok("created")
    /\ op[1] = "Migrate" /\ Migrated(1)
    /\ Len(snap[1][DbPath].ver) = 1
    /\ Len(Now(DbPath).ver) = 2
    /\ MaxOrdinal(Now(DbPath).ver) = 2

\* C20: when Open was called with no file at P and returned an error, no
\* file is left at P.
C20_FailedCreateLeavesNoFile ==
    \A p \in Procs :
        (Returned(p) /\ op[p] = "Open" /\ ~snap[p][DbPath].exists /\ ~res[p].ok)
            => fs.path[DbPath] = 0

\* A database file with at least one lineage row.
Tracked(db) == db.exists /\ db.hasVer /\ db.ver # <<>>

HashesOf(ver) == {ver[i].hash : i \in 1..Len(ver)}

\* The hash of the lineage row of greatest version.
CurrentHashes(db) == {r.hash : r \in Top(db.ver)}

\* C21: Open with a schema that executes, on a file that has lineage rows:
\* it returns the file as it is exactly when the hash of the schema is the
\* hash of the row of greatest version; it migrates when the hash is in no
\* lineage row; it fails with the backward-migration error when the hash is
\* in a lineage row and is not the current one.
C21_OpenFollowsClassify ==
    \A p \in Procs :
        (Returned(p) /\ op[p] = "Open" /\ Tracked(snap[p][DbPath]) /\ Valid(arg[p])) =>
            LET h   == calculateSchemaHash(arg[p])
                old == snap[p][DbPath]
            IN  /\ (res[p] = Ok("asis")) <=> (h \in CurrentHashes(old))
                /\ (h \notin HashesOf(old.ver)) => res[p] = Ok("migrated")
                /\ (h \in HashesOf(old.ver) \ CurrentHashes(old))
                      => res[p] = Err("backward")

\* The candidate schema is a step back for db: db has lineage rows, and the
\* hash of the schema is in one of them and is not the current one.
IsBackward(db, schema) ==
    /\ Tracked(db)
    /\ calculateSchemaHash(schema) \notin CurrentHashes(db)
    /\ calculateSchemaHash(schema) \in HashesOf(db.ver)

C23_ClearedTableIsForward ==
    \A p \in Procs :
        (/\ Returned(p) /\ op[p] = "Open" /\ Len(hist[p]) = 3
         /\ hist[p][1].schema = arg[p] /\ hist[p][1].res.ok
         /\ hist[p][2].schema # arg[p] /\ hist[p][2].res = Ok("migrated")
         /\ snap[p][DbPath].hasVer /\ snap[p][DbPath].ver = <<>>)
            => res[p].ok

\* SchemasEqual has returned to caller p.
Compared(p) == Returned(p) /\ op[p] = "SchemasEqual"

C25_SchemasEqualReadOnly ==
    \A p \in Procs : Compared(p) => Files(fs) = snap[p]

\* C26: when MigrateToNewFile has returned, with or without an error, and
\* whatever the new path was, the file at the old path is what it was
\* before the call.
C26_OldFileUntouched ==
    \A p \in Procs :
        (Returned(p) /\ op[p] = "MigrateToNewFile" /\ snap[p][DbPath].exists)
            => Now(DbPath) = snap[p][DbPath]

\* Where a caller is when it writes to P + ".backup" or P + ".tmp".
Destructive == {"m_backup", "m_exec", "m_copy", "m_rename"}

\* C27: every step that changes the file at P + ".backup" or at P + ".tmp"
\* is taken by a caller that is past the direction check of its call; a
\* caller gets past the check only from the check itself, made on the file
\* at P as it is then, and only when the candidate is not a step back; and
\* a call that returned the backward-migration error has changed neither
\* file.
C27_ClassifyBeforeWrite ==
    /\ [][/\ (Content(fs', BackupPath) # Now(BackupPath) \/ Content(fs', TmpPath) # Now(TmpPath))
              => \E p \in Procs : pc[p] \in Destructive /\ pc'[p] # pc[p]
          /\ \A p \in Procs :
                (pc'[p] \in Destructive /\ pc[p] \notin Destructive)
                    => (pc[p] = "m_fwd" /\ ~IsBackward(Now(DbPath), arg[p]))]_vars
    /\ [](\A p \in Procs :
            (Returned(p) /\ res[p] = Err("backward"))
                => /\ Now(BackupPath) = snap[p][BackupPath]
                   /\ Now(TmpPath) = snap[p][TmpPath])

C27_Witness ==
    /\ Returned(1) /\ op[1] = "Migrate" /\ res[1] = Err("backward")
    /\ Len(hist[1]) = 3 /\ hist[1][2].res = Ok("migrated")
    /\ Now(BackupPath).exists /\ Now(BackupPath) = snap[1][BackupPath]
    /\ fs.path[TmpPath] = 0

ColumnOf(tb, c) == CHOOSE col \in {tb.cols[i] : i \in 1..Len(tb.cols)} : col.name = c

ColumnNames(tb) == {tb.cols[i].name : i \in 1..Len(tb.cols)}

\* Copying table t of the database old into the tables of the schema meets a
\* row the new table cannot take: a NULL in a common column that the schema
\* declares NOT NULL.
InsertFails(old, schema, t) ==
    LET newTb == TableOf(Exec(EmptyDb, schema).db, t)
        oldTb == TableOf(old, t)
    IN  \E k \in 1..Len(old.rows[t]) :
            \E c \in ColumnNames(newTb) \cap ColumnNames(oldTb) :
                ColumnOf(newTb, c).nn /\ old.rows[t][k][c] = NULL

CopyFails(old, schema) ==
    /\ old.exists /\ Valid(schema)
    /\ \E t \in TableNames(old) \cap TableNamesOf(schema) : InsertFails(old, schema, t)

WithDefault(old, d) ==
    [k \in 1..Len(old) |->
        [old[k] EXCEPT !["name"] = IF @ = NULL THEN d ELSE @]]

\* C29: Open with the schema that declares name NOT NULL with a default, on
\* a database whose users table has a nullable name column: the call
\* migrates, every row is kept, and a row whose name was NULL holds the
\* default.
C29_NullBecomesDefault ==
    \A p \in Procs :
        (/\ Returned(p) /\ op[p] = "Open" /\ arg[p] = SchemaNameDefault
         /\ snap[p][DbPath].tabs = CatalogOf(SchemaV1)
         /\ snap[p][DbPath].ver = <<[version |-> 1, hash |-> calculateSchemaHash(SchemaV1)]>>)
            => /\ res[p] = Ok("migrated")
               /\ Now(DbPath).rows["users"] =
                     WithDefault(snap[p][DbPath].rows["users"], DefaultName)

\* C30: Open or Migrate with the schema that declares name NOT NULL without
\* a default, on a database whose users table holds a NULL name: the call
\* returns an error, it fails before the data copy (not in it), and the
\* file at P is what it was.
C30_FailsBeforeCopy ==
    \A p \in Procs :
        (/\ Returned(p) /\ op[p] \in {"Open", "Migrate"} /\ arg[p] = SchemaNameNotNull
         /\ snap[p][DbPath].tabs = CatalogOf(SchemaV1)
         /\ \E k \in 1..Len(snap[p][DbPath].rows["users"]) :
               snap[p][DbPath].rows["users"][k]["name"] = NULL)
            => /\ ~res[p].ok
               /\ res[p] # Err("copy")
               /\ Now(DbPath) = snap[p][DbPath]

\* The names of a list of columns, and the positions of newColumns holding
\* a name that oldColumns holds too.
NamesIn(columns) == {columns[i] : i \in 1..Len(columns)}

CommonPositions(oldColumns, newColumns) ==
    {k \in 1..Len(newColumns) : newColumns[k] \in NamesIn(oldColumns)}

ColumnsCalled(p) == pc[p] = "done" /\ op[p] = "FindCommonColumns"

C32_NoLockFileWhenIdle ==
    (\A p \in Procs : pc[p] \in {"idle", "done"}) => lockIno = 0

C32_Witness ==
    /\ \A p \in Procs : pc[p] = "done" /\ op[p] = "Migrate"
    /\ arg[1] = SchemaV2 /\ arg[2] = SchemaV2DropName
    /\ res[1].kind = "migrated" /\ res[2].kind = "migrated" /\ res[3].kind = "asis"
    /\ lockIno = 0

\* The file at P holds the version table and exactly what the schema of
\* caller p creates.
UpToDate(p) ==
    /\ Now(DbPath).exists
    /\ Now(DbPath).hasVer
    /\ Valid(arg[p])
    /\ Now(DbPath).tabs = CatalogOf(arg[p])

\* C33: when the file is up to date with the schema at the moment Migrate
\* compares them under the lock, whatever it was when the call began, the
\* call returns the existing file as it is: neither that step nor the
\* remaining steps of the call write P, P.backup or P.tmp or add a version
\* row.
C33_DecidesUnderLock ==
    [][\A p \in Procs :
         /\ (pc[p] = "m_eq" /\ pc'[p] # "m_eq" /\ UpToDate(p))
                => /\ pc'[p] = "m_unlock"
                   /\ res'[p] = Ok("asis")
                   /\ fs' = fs
         /\ (/\ pc[p] \in {"m_unlock", "m_remove"} /\ pc'[p] # pc[p]
             /\ res[p] = Ok("asis"))
                => /\ fs' = fs
                   /\ res'[p] = res[p]]_vars

C33_Witness ==
    \E p \in Procs :
        /\ pc[p] = "done" /\ op[p] = "Migrate" /\ res[p] = Ok("asis")
        /\ snap[p][DbPath].tabs # CatalogOf(arg[p])
        /\ UpToDate(p)

\* The tables of both the file the call of p began with and its schema whose
\* old and new column lists share no name.
DisjointTables(p) ==
    {t \in TableNames(snap[p][DbPath]) \cap TableNamesOf(arg[p]) :
        NamesIn(GetColumns(snap[p][DbPath], t))
            \cap NamesIn(GetColumns(Exec(EmptyDb, arg[p]).db, t)) = {}}

\* C34, as claimed: a table of both schemas whose column lists share no name
\* makes no call fail in the data copy, and after the migration it has zero
\* rows, however many rows the old table had.
C34_DisjointTableEmpty ==
    \A p \in Procs :
        (Returned(p) /\ op[p] = "Open" /\ DisjointTables(p) # {}) =>
            /\ res[p] # Err("copy")
            /\ Migrated(p) => \A t \in DisjointTables(p) : Now(DbPath).rows[t] = <<>>

\* C34, amended: such a table makes no call fail in the data copy, and after
\* the migration it holds no row of the old table: it holds exactly the
\* rows the INSERT statements of the new schema put into it (none when it
\* has none), however many rows the old table had.
C34_DisjointTableSeedOnly ==
    \A p \in Procs :
        (Returned(p) /\ op[p] = "Open" /\ DisjointTables(p) # {}) =>
            /\ res[p] # Err("copy")
            /\ Migrated(p) =>
                  \A t \in DisjointTables(p) : Now(DbPath).rows[t] = SeedRows(arg[p], t)

C34_Witness ==
    /\ Migrated(1) /\ arg[1] = SchemaEmailOnly
    /\ snap[1][DbPath].tabs = CatalogOf(SchemaV1)
    /\ Len(snap[1][DbPath].rows["users"]) = 2
    /\ Now(DbPath).tabs = CatalogOf(SchemaEmailOnly)
    /\ Now(DbPath).rows["users"] = <<>>

\* C35: a Migrate on a file that has version rows either fails or carries
\* them over: the data copy that goes on to the rename has copied every
\* version row into the new file, and the version a successful call records
\* is the highest old version plus one, whatever query failed on the way.
C35_FailedReadIsError ==
    [][\A p \in Procs :
         /\ (pc[p] = "m_copy" /\ pc'[p] = "m_rename" /\ Now(DbPath).hasVer)
                => /\ Content(fs', TmpPath).hasVer
                   /\ Content(fs', TmpPath).ver = Now(DbPath).ver
         /\ (/\ pc[p] = "m_rec" /\ pc'[p] = "m_unlock" /\ res'[p].ok
             /\ Now(DbPath).ver # <<>>)
                => LET v == Content(fs', DbPath).ver
                   IN  v[Len(v)].version = MaxOrdinal(Now(DbPath).ver) + 1]_vars

\* A call of Migrate, or an Open of an existing path (the only Open that
\* calls Migrate), returned an error.
Failed(p) ==
    /\ Returned(p) /\ ~res[p].ok
    /\ op[p] = "Migrate" \/ (op[p] = "Open" /\ snap[p][DbPath].exists)

\* C36, as claimed: a call that returns an error leaves the file at
\* P + ".backup" as it was when the call began.
C36_FailureKeepsBackup ==
    \A p \in Procs : Failed(p) => Now(BackupPath) = snap[p][BackupPath]

\* C36, amended: a call that returns an error leaves the file at
\* P + ".backup" as it was when the call began, or as a copy of the file the
\* call found at P (of the empty database it created there when there was
\* no file); the latter exactly when the call got past the direction check
\* on an existing path.
C36_BackupOldOrCopyOfOld ==
    \A p \in Procs : Failed(p) =>
        IF res[p].kind \in {"schema", "copy", "rename", "record"}
        THEN Now(BackupPath) = OpenDb(snap[p][DbPath])
        ELSE Now(BackupPath) = snap[p][BackupPath]

C36_Witness ==
    /\ Failed(1) /\ op[1] = "Migrate" /\ res[1] = Err("schema")
    /\ snap[1][BackupPath].tabs = CatalogOf(SchemaV1)
    /\ snap[1][DbPath].tabs = CatalogOf(SchemaV2)
    /\ Now(BackupPath) = snap[1][DbPath]

\* C37: when MigrateToNewFile fails, every file that existed before the call
\* at a path other than the old path (the new path is among them or names
\* no file) is still there with the content it had.
C37_FailureKeepsExistingTarget ==
    \A p \in Procs :
        (Returned(p) /\ op[p] = "MigrateToNewFile" /\ ~res[p].ok) =>
            \A x \in Paths \ {DbPath} :
                snap[p][x].exists => Now(x) = snap[p][x]

\* C38: after a successful MigrateToNewFile(S2, P, N) from a file whose
\* current version row is the one of S1, S1 and S2 different, the file
\* written at N has S2 as the schema of its current version row, and S1 is
\* for it a schema of an earlier row: the direction check of a later
\* Open(S1, N) rejects it as a backward migration (C22).
C38_NewFileTracksNewSchema ==
    \A p \in Procs : \A S1 \in NewFileSchemas :
        (/\ Returned(p) /\ op[p] = "MigrateToNewFile" /\ res[p].ok
         /\ Tracked(snap[p][DbPath])
         /\ CurrentHashes(snap[p][DbPath]) = {calculateSchemaHash(S1)}
         /\ Differ(S1, arg[p]))
            => \A x \in Paths \ {DbPath} :
                   Now(x) # snap[p][x] =>
                       /\ CurrentHashes(Now(x)) = {calculateSchemaHash(arg[p])}
                       /\ IsBackward(Now(x), S1)

\* C39: when all callers called Open with the same schema on a path without
\* a file and all calls have returned, the file at P has the catalog of the
\* schema and one version row, numbered 1; a call that created the database
\* returns a handle to the file that is at P, and once a call has returned
\* a handle no step puts another file at P.
C39_ConcurrentCreateOnce ==
    /\ [](AllReturned =>
            /\ Now(DbPath).tabs = CatalogOf(SchemaV1)
            /\ Now(DbPath).ver =
                  <<[version |-> 1, hash |-> calculateSchemaHash(SchemaV1)]>>)
    /\ [][/\ \A p \in Procs :
                (pc[p] = "o_rec" /\ pc'[p] = "done" /\ res'[p].ok)
                    => conn[p] = fs'.path[DbPath]
          /\ (\E q \in Procs : Returned(q) /\ res[q].ok)
                => fs'.path[DbPath] = fs.path[DbPath]]_vars

\* C40: when a file was at P + ".tmp" as the call began and the call
\* migrated, the file at P has the catalog of the schema, the version rows
\* of the old file followed by one new row, and in every table the rows the
\* schema inserts and the rows of the old table, and no other.
C40_ScratchBuiltFromEmpty ==
    \A p \in Procs :
        (Migrated(p) /\ snap[p][TmpPath].exists) =>
            LET old == snap[p][DbPath]
                new == Now(DbPath)
            IN  /\ new.tabs = CatalogOf(arg[p])
                /\ Len(new.ver) = Len(old.ver) + 1
                /\ SubSeq(new.ver, 1, Len(old.ver)) = old.ver
                /\ \A t \in TableNames(new) :
                       Len(new.rows[t]) =
                           Len(SeedRows(arg[p], t))
                             + (IF t \in TableNames(old) THEN Len(old.rows[t]) ELSE 0)

====
